---- MODULE Spec2Model ----
(***************************************************************************)
(* Model of aws-cost-breakdown.py: the cost estimator calc_costs and the   *)
(* Streamlit script main that feeds it from four widgets.                  *)
(*                                                                         *)
(* Python ints are unbounded and Python floats are IEEE-754 binary64, so   *)
(* both are modelled on arbitrary-precision naturals ("big" numbers:       *)
(* little-endian sequences of 15-bit limbs, no high zero limb, <<>> = 0).  *)
(* A float is [neg, m, e] with value (-1)^neg * m * 2^e and either m = 0   *)
(* or 2^52 <= m < 2^53; every float operation computes the exact result    *)
(* and rounds it to nearest, ties to even, as the hardware does.           *)
(***************************************************************************)
EXTENDS Integers, Sequences, FiniteSets, TLC

\* ------------------------------------------------------------------------
\* Unbounded naturals (Python int)
\* ------------------------------------------------------------------------
LimbBits == 15
Base == 2^LimbBits

RECURSIVE BFromInt(_)
BFromInt(n) == IF n = 0 THEN <<>> ELSE <<n % Base>> \o BFromInt(n \div Base)

RECURSIVE BTrim(_)
BTrim(a) ==
    IF a = <<>> THEN <<>>
    ELSE IF a[Len(a)] = 0 THEN BTrim(SubSeq(a, 1, Len(a) - 1))
    ELSE a

RECURSIVE BAddC(_, _, _)
BAddC(a, b, c) ==
    IF a = <<>> /\ b = <<>> THEN (IF c = 0 THEN <<>> ELSE <<c>>)
    ELSE LET x == IF a = <<>> THEN 0 ELSE a[1]
             y == IF b = <<>> THEN 0 ELSE b[1]
             s == x + y + c
             ta == IF a = <<>> THEN <<>> ELSE Tail(a)
             tb == IF b = <<>> THEN <<>> ELSE Tail(b)
         IN  <<s % Base>> \o BAddC(ta, tb, s \div Base)

BAdd(a, b) == BAddC(a, b, 0)

\* a - b - w for a >= b + w, limb by limb with borrow w
RECURSIVE BSubW(_, _, _)
BSubW(a, b, w) ==
    IF a = <<>> THEN <<>>
    ELSE LET y == IF b = <<>> THEN 0 ELSE b[1]
             d == a[1] - y - w
             tb == IF b = <<>> THEN <<>> ELSE Tail(b)
         IN  IF d < 0 THEN <<d + Base>> \o BSubW(Tail(a), tb, 1)
             ELSE <<d>> \o BSubW(Tail(a), tb, 0)

BSub(a, b) == BTrim(BSubW(a, b, 0))

\* -1, 0, 1 as a <, =, > b
RECURSIVE BCmpFrom(_, _, _)
BCmpFrom(a, b, i) ==
    IF i = 0 THEN 0
    ELSE IF a[i] < b[i] THEN -1
    ELSE IF a[i] > b[i] THEN 1
    ELSE BCmpFrom(a, b, i - 1)

BCmp(a, b) ==
    IF Len(a) < Len(b) THEN -1
    ELSE IF Len(a) > Len(b) THEN 1
    ELSE BCmpFrom(a, b, Len(a))

\* a * k + c for a limb k
RECURSIVE BMulSmall(_, _, _)
BMulSmall(a, k, c) ==
    IF a = <<>> THEN (IF c = 0 THEN <<>> ELSE <<c>>)
    ELSE LET p == a[1] * k + c
         IN  <<p % Base>> \o BMulSmall(Tail(a), k, p \div Base)

BShlLimbs(a, k) == IF a = <<>> THEN <<>> ELSE [i \in 1..k |-> 0] \o a

RECURSIVE BMul(_, _)
BMul(a, b) ==
    IF a = <<>> \/ b = <<>> THEN <<>>
    ELSE BAdd(BTrim(BMulSmall(a, b[1], 0)), BShlLimbs(BMul(a, Tail(b)), 1))

BBitLenLimb(x) == CHOOSE k \in 0..LimbBits : (x < 2^k) /\ (k = 0 \/ x >= 2^(k - 1))

BBitLen(a) ==
    IF a = <<>> THEN 0 ELSE LimbBits * (Len(a) - 1) + BBitLenLimb(a[Len(a)])

\* a * 2^k
BShl(a, k) ==
    BShlLimbs(BTrim(BMulSmall(a, 2^(k % LimbBits), 0)), k \div LimbBits)

\* floor(a / 2^k)
BShr(a, k) ==
    LET q == k \div LimbBits
        r == k % LimbBits
        n == Len(a) - q
    IN  IF n <= 0 THEN <<>>
        ELSE BTrim([i \in 1..n |->
                (a[i + q] \div 2^r)
                + (IF i + q < Len(a)
                   THEN (a[i + q + 1] % 2^r) * 2^(LimbBits - r) ELSE 0)])

\* a mod 2^k
BLowBits(a, k) ==
    LET q == k \div LimbBits
        r == k % LimbBits
    IN  IF Len(a) <= q THEN a
        ELSE BTrim(SubSeq(a, 1, q) \o <<a[q + 1] % 2^r>>)

BIsOdd(a) == a # <<>> /\ a[1] % 2 = 1

\* The quotient digit floor(cur / d) for cur < d * Base and a divisor d whose
\* top limb is at least Base / 2: the estimate from the two top limbs of cur
\* is at most 2 too high (Knuth, algorithm D) and is lowered until it fits.
RECURSIVE BDigitFix(_, _, _)
BDigitFix(cur, d, q) ==
    IF BCmp(BTrim(BMulSmall(d, q, 0)), cur) > 0
    THEN BDigitFix(cur, d, q - 1) ELSE q

BDigit(cur, d) ==
    LET l   == Len(d)
        hi  == IF Len(cur) > l THEN cur[l + 1] ELSE 0
        lo  == IF Len(cur) >= l THEN cur[l] ELSE 0
        est == (hi * Base + lo) \div d[l]
    IN  BDigitFix(cur, d, IF est > Base - 1 THEN Base - 1 ELSE est)

\* One step of long division: the quotient so far hq gets the digit q of
\* the running remainder cur
BDivPut(cur, hq, d, q) ==
    <<BTrim(<<q>> \o hq), BSub(cur, BTrim(BMulSmall(d, q, 0)))>>

BDivStep(cur, hq, d) == BDivPut(cur, hq, d, BDigit(cur, d))

\* <<floor(n / d), n mod d>> by long division, most significant limb first.
\* The result h for the higher limbs is bound as a value before it is used.
RECURSIVE BDivLimbs(_, _)
BDivLimbs(n, d) ==
    IF n = <<>> THEN <<<<>>, <<>>>>
    ELSE CHOOSE res \in
            { BDivStep(BTrim(<<n[1]>> \o h[2]), h[1], d)
              : h \in {BDivLimbs(Tail(n), d)} } : TRUE

\* the remainder of the division scaled by 2^s, scaled back
BDivUnscale(qr, s) == <<qr[1], BShr(qr[2], s)>>

\* the division with both sides scaled by 2^s, which leaves the quotient
BDivScaled(n, d, s) == BDivUnscale(BDivLimbs(BShl(n, s), BShl(d, s)), s)

\* <<floor(n / d), n mod d>> for d # 0
BDivMod(n, d) == BDivScaled(n, d, LimbBits - BBitLenLimb(d[Len(d)]))

RECURSIVE BPow(_, _)
BPow(b, k) == IF k = 0 THEN <<1>> ELSE BMulSmall(BPow(b, k - 1), b, 0)

\* ------------------------------------------------------------------------
\* IEEE-754 binary64 (Python float)
\* ------------------------------------------------------------------------
MantBits == 53
MaxExp == 971      \* largest e of a finite double: (2^53 - 1) * 2^971
MinExp == -1074    \* e of the subnormals

FZero == [neg |-> FALSE, m |-> <<>>, e |-> 0]

\* q1 * 2^ex for a rounded mantissa q1 <= 2^53, renormalised when the
\* rounding carried into bit 54
FRenorm(neg, q1, ex) ==
    IF BBitLen(q1) > MantBits
    THEN [neg |-> neg, m |-> BShr(q1, 1), e |-> ex + 1]
    ELSE [neg |-> neg, m |-> q1, e |-> ex]

\* q rounded up or left as it is: c compares the bits cut off with half a
\* unit of q, and a tie goes up when more was cut off (sticky) or q is odd
FRoundCut(neg, q, c, ex, sticky) ==
    FRenorm(neg,
            IF c > 0 \/ (c = 0 /\ (sticky \/ BIsOdd(q)))
            THEN BAddC(q, <<>>, 1) ELSE q,
            ex)

\* mant of len bits brought to 53 bits: shifted left when shorter, its low
\* sh = len - 53 bits cut off and rounded when longer
FRoundLen(neg, mant, ex, sticky, len) ==
    IF mant = <<>> THEN FZero
    ELSE IF len <= MantBits
    THEN [neg |-> neg, m |-> BShl(mant, MantBits - len),
          e |-> ex - (MantBits - len)]
    ELSE FRoundCut(neg, BShr(mant, len - MantBits),
                   BCmp(BLowBits(mant, len - MantBits),
                        BShl(<<1>>, len - MantBits - 1)),
                   ex + (len - MantBits), sticky)

\* The double nearest to (mant + s) * 2^ex, where 0 <= s < 1 and sticky
\* says s > 0; ties go to the even mantissa.  Needs BBitLen(mant) > 53
\* whenever sticky.  Exponents past MaxExp stand for an overflow to inf.
FRound(neg, mant, ex, sticky) == FRoundLen(neg, mant, ex, sticky, BBitLen(mant))

FIsFinite(x) == x.m = <<>> \/ (x.e <= MaxExp /\ x.e >= MinExp)

\* float(n) for an int n >= 0
FFromBig(n) == FRound(FALSE, n, 0, FALSE)
FFromInt(n) == FFromBig(BFromInt(n))

FMul(x, y) == FRound(x.neg # y.neg, BMul(x.m, y.m), x.e + y.e, FALSE)

\* the shift that gives a quotient of at least 55 bits
FDivShift(ln, ld) ==
    IF ln >= ld + MantBits + 2 THEN 0 ELSE ld + MantBits + 2 - ln

\* the quotient qr[1] rounded; a remainder qr[2] # 0 is the sticky bit
FDivRound(neg, qr, ex) == FRound(neg, qr[1], ex, qr[2] # <<>>)

FDivShifted(neg, n, d, ex, k) == FDivRound(neg, BDivMod(BShl(n, k), d), ex - k)

\* n / d correctly rounded, for big n and d # 0, scaled by 2^ex
FDivBig(neg, n, d, ex) ==
    IF n = <<>> THEN FZero
    ELSE FDivShifted(neg, n, d, ex, FDivShift(BBitLen(n), BBitLen(d)))

\* x / y; Python raises ZeroDivisionError for y = 0, modelled by the string
FDiv(x, y) ==
    IF y.m = <<>> THEN "ZeroDivisionError"
    ELSE FDivBig(x.neg # y.neg, x.m, y.m, x.e - y.e)

\* magnitudes brought to the common exponent min(x.e, y.e)
FAlign(x, y) ==
    LET ee == IF x.m = <<>> THEN y.e
              ELSE IF y.m = <<>> THEN x.e
              ELSE IF x.e < y.e THEN x.e ELSE y.e
    IN  [a |-> IF x.m = <<>> THEN <<>> ELSE BShl(x.m, x.e - ee),
         b |-> IF y.m = <<>> THEN <<>> ELSE BShl(y.m, y.e - ee),
         e |-> ee]

\* the sum of the aligned magnitudes al.a and al.b with signs xneg and
\* yneg; c compares al.a with al.b, and equal magnitudes of opposite signs
\* give +0.0
FAddAligned(xneg, yneg, al, c) ==
    FRound(IF xneg = yneg \/ c > 0 THEN xneg ELSE yneg,
           IF xneg = yneg THEN BAdd(al.a, al.b)
           ELSE IF c = 0 THEN <<>>
           ELSE IF c > 0 THEN BSub(al.a, al.b)
           ELSE BSub(al.b, al.a),
           al.e, FALSE)

FAddMagnitudes(xneg, yneg, al) ==
    FAddAligned(xneg, yneg, al, BCmp(al.a, al.b))

FAdd(x, y) == FAddMagnitudes(x.neg, y.neg, FAlign(x, y))

FNeg(x) == IF x.m = <<>> THEN x ELSE [x EXCEPT !.neg = ~x.neg]

FSub(x, y) == FAdd(x, FNeg(y))

\* -1, 0, 1 as x <, =, > y
FCmpMagnitudes(al) == BCmp(al.a, al.b)

FCmp(x, y) ==
    IF x.neg /\ ~y.neg THEN (IF x.m = <<>> /\ y.m = <<>> THEN 0 ELSE -1)
    ELSE IF ~x.neg /\ y.neg THEN 1
    ELSE (IF x.neg THEN -1 ELSE 1) * FCmpMagnitudes(FAlign(x, y))

FGt(x, y) == FCmp(x, y) > 0
FGe(x, y) == FCmp(x, y) >= 0

\* the float literal num / 10^k, e.g. 0.0000133334 = FLit(133334, 10)
FLit(num, k) == FDivBig(FALSE, BFromInt(num), BPow(10, k), 0)

\* max(0, a - b) for ints a, b >= 0
BMax0Sub(a, b) == IF BCmp(a, b) > 0 THEN BSub(a, b) ELSE <<>>

\* max(0, x) * 1.0: Python's max returns the int 0 unless x > 0, and every
\* use multiplies the result by a float, which turns the int 0 into 0.0
FMax0(x) == IF FGt(x, FZero) THEN x ELSE FZero

\* ------------------------------------------------------------------------
\* Pricing constants (module level, lines 8-41)
\* ------------------------------------------------------------------------
LAMBDA_COST_PER_GB_SEC == FLit(133334, 10)
LAMBDA_COST_PER_REQUEST == FLit(2, 7)
APIGW_COST_PER_REQUEST == FLit(1, 6)
LAMBDA_FREE_REQUESTS == 1000000
LAMBDA_FREE_GB_SECONDS == 400000

RDS_INSTANCE_COST_PER_HOUR == FLit(16, 3)
RDS_STORAGE_COST_PER_GB_MONTH == FLit(115, 3)
RDS_STORAGE_GB == 20
RDS_MONTHLY_COST ==
    FAdd(FMul(RDS_INSTANCE_COST_PER_HOUR, FFromInt(730)),
         FMul(FFromInt(RDS_STORAGE_GB), RDS_STORAGE_COST_PER_GB_MONTH))

S3_STORAGE_COST_PER_GB_MONTH == FLit(23, 3)
S3_PUT_COST_PER_1000 == FLit(5, 3)
S3_GET_COST_PER_1000 == FLit(4, 4)
S3_FILE_SIZE_MB == 5

DATA_TRANSFER_OUT_COST_PER_GB == FLit(9, 2)
DATA_TRANSFER_OUT_FREE_GB == FLit(10, 1)
CROSS_AZ_COST_PER_GB == FLit(1, 2)
AVG_RESPONSE_SIZE_BYTES == 538
AVG_DB_QUERY_KB == 2
AVG_DB_RESPONSE_KB == 3
CROSS_AZ_RATIO == FLit(5, 1)

CLOUDWATCH_INGESTION_COST_PER_GB == FLit(25, 2)
CLOUDWATCH_STORAGE_COST_PER_GB_MONTH == FLit(3, 2)
LOG_RETENTION_DAYS == 7
AVG_LAMBDA_LOG_BYTES_PER_INVOCATION == 3389
AVG_APIGW_LOG_BYTES_PER_REQUEST == 273

MEMORY_MB == 512
DURATION_MS == 229

\* The module's global names as bound once the module body has run
ModuleGlobals ==
    [LAMBDA_COST_PER_GB_SEC |-> LAMBDA_COST_PER_GB_SEC,
     LAMBDA_COST_PER_REQUEST |-> LAMBDA_COST_PER_REQUEST,
     APIGW_COST_PER_REQUEST |-> APIGW_COST_PER_REQUEST,
     LAMBDA_FREE_REQUESTS |-> LAMBDA_FREE_REQUESTS,
     LAMBDA_FREE_GB_SECONDS |-> LAMBDA_FREE_GB_SECONDS,
     RDS_INSTANCE_COST_PER_HOUR |-> RDS_INSTANCE_COST_PER_HOUR,
     RDS_STORAGE_COST_PER_GB_MONTH |-> RDS_STORAGE_COST_PER_GB_MONTH,
     RDS_STORAGE_GB |-> RDS_STORAGE_GB,
     RDS_MONTHLY_COST |-> RDS_MONTHLY_COST,
     S3_STORAGE_COST_PER_GB_MONTH |-> S3_STORAGE_COST_PER_GB_MONTH,
     S3_PUT_COST_PER_1000 |-> S3_PUT_COST_PER_1000,
     S3_GET_COST_PER_1000 |-> S3_GET_COST_PER_1000,
     S3_FILE_SIZE_MB |-> S3_FILE_SIZE_MB,
     DATA_TRANSFER_OUT_COST_PER_GB |-> DATA_TRANSFER_OUT_COST_PER_GB,
     DATA_TRANSFER_OUT_FREE_GB |-> DATA_TRANSFER_OUT_FREE_GB,
     CROSS_AZ_COST_PER_GB |-> CROSS_AZ_COST_PER_GB,
     AVG_RESPONSE_SIZE_BYTES |-> AVG_RESPONSE_SIZE_BYTES,
     AVG_DB_QUERY_KB |-> AVG_DB_QUERY_KB,
     AVG_DB_RESPONSE_KB |-> AVG_DB_RESPONSE_KB,
     CROSS_AZ_RATIO |-> CROSS_AZ_RATIO,
     CLOUDWATCH_INGESTION_COST_PER_GB |-> CLOUDWATCH_INGESTION_COST_PER_GB,
     CLOUDWATCH_STORAGE_COST_PER_GB_MONTH |-> CLOUDWATCH_STORAGE_COST_PER_GB_MONTH,
     LOG_RETENTION_DAYS |-> LOG_RETENTION_DAYS,
     AVG_LAMBDA_LOG_BYTES_PER_INVOCATION |-> AVG_LAMBDA_LOG_BYTES_PER_INVOCATION,
     AVG_APIGW_LOG_BYTES_PER_REQUEST |-> AVG_APIGW_LOG_BYTES_PER_REQUEST,
     MEMORY_MB |-> MEMORY_MB,
     DURATION_MS |-> DURATION_MS]

\* ------------------------------------------------------------------------
\* calc_costs (lines 44-109), statement by statement.  g is the module's
\* globals at the time of the call; ints are big, costs are floats.
\* ------------------------------------------------------------------------
\* variant: the base of the affine model mistyped
invoc_per_session_base32(company_users) == 32 + (4 * company_users)

invoc_per_session(company_users) == 36 + (4 * company_users)

\* variant: the product kept in an unsigned 32-bit integer
total_invocations_wrap32(company_users, active_users, sessions_per_day, days) ==
    BLowBits(BMul(BMul(BMul(BFromInt(invoc_per_session(company_users)),
                            BFromInt(active_users)),
                       BFromInt(sessions_per_day)),
                  BFromInt(days)), 32)

total_invocations(company_users, active_users, sessions_per_day, days) ==
    BMul(BMul(BMul(BFromInt(invoc_per_session(company_users)),
                   BFromInt(active_users)),
              BFromInt(sessions_per_day)),
         BFromInt(days))

total_sessions(active_users, sessions_per_day, days) ==
    BMul(BMul(BFromInt(active_users), BFromInt(sessions_per_day)),
         BFromInt(days))

gb_seconds(g, ti) ==
    FMul(FMul(FFromBig(ti),
              FDivBig(FALSE, BFromInt(g.MEMORY_MB), BFromInt(1024), 0)),
         FDivBig(FALSE, BFromInt(g.DURATION_MS), BFromInt(1000), 0))

\* variant: the compute free tier subtracted without the clamp
lambda_compute_unclamped(g, ti) ==
    FMul(FSub(gb_seconds(g, ti), FFromInt(g.LAMBDA_FREE_GB_SECONDS)),
         g.LAMBDA_COST_PER_GB_SEC)

lambda_compute(g, ti) ==
    FMul(FMax0(FSub(gb_seconds(g, ti), FFromInt(g.LAMBDA_FREE_GB_SECONDS))),
         g.LAMBDA_COST_PER_GB_SEC)

\* variant: the request free tier one request short
lambda_requests_off_by_one(g, ti) ==
    FMul(FFromBig(BMax0Sub(ti, BFromInt(g.LAMBDA_FREE_REQUESTS - 1))),
         g.LAMBDA_COST_PER_REQUEST)

\* max(0, total_invocations - LAMBDA_FREE_REQUESTS) is int arithmetic
lambda_requests(g, ti) ==
    FMul(FFromBig(BMax0Sub(ti, BFromInt(g.LAMBDA_FREE_REQUESTS))),
         g.LAMBDA_COST_PER_REQUEST)

\* variant: the request charge left out of the Lambda total
lambda_total_compute_only(g, ti) == lambda_compute(g, ti)

lambda_total(g, ti) == FAdd(lambda_compute(g, ti), lambda_requests(g, ti))

apigw_total(g, ti) == FMul(FFromBig(ti), g.APIGW_COST_PER_REQUEST)

\* variant: the proration capped at one month
rds_cost_capped(g, days) ==
    FMul(FDiv(g.RDS_MONTHLY_COST, FFromInt(30)),
         FFromInt(IF days > 30 THEN 30 ELSE days))

rds_cost(g, days) ==
    FMul(FDiv(g.RDS_MONTHLY_COST, FFromInt(30)), FFromInt(days))

s3_total(g, ts, days) ==
    LET s3_put_cost == FMul(FFromBig(ts),
                            FDiv(g.S3_PUT_COST_PER_1000, FFromInt(1000)))
        s3_get_cost == FMul(FFromBig(ts),
                            FDiv(g.S3_GET_COST_PER_1000, FFromInt(1000)))
        s3_storage_gb == FDivBig(FALSE, BMul(ts, BFromInt(g.S3_FILE_SIZE_MB)),
                                 BFromInt(1024), 0)
        s3_storage_cost ==
            FMul(FMul(s3_storage_gb, g.S3_STORAGE_COST_PER_GB_MONTH),
                 FDivBig(FALSE, BFromInt(days), BFromInt(30), 0))
    IN  FAdd(FAdd(s3_put_cost, s3_get_cost), s3_storage_cost)

\* variant: the transfer allowance subtracted without the clamp
apigw_transfer_cost_unclamped(g, ti, days) ==
    LET apigw_out_gb ==
            FDivBig(FALSE, BMul(ti, BFromInt(g.AVG_RESPONSE_SIZE_BYTES)),
                    BFromInt(1024 * 1024 * 1024), 0)
    IN  FMul(FSub(apigw_out_gb,
                  FMul(g.DATA_TRANSFER_OUT_FREE_GB,
                       FDivBig(FALSE, BFromInt(days), BFromInt(30), 0))),
             g.DATA_TRANSFER_OUT_COST_PER_GB)

apigw_transfer_cost(g, ti, days) ==
    LET apigw_out_gb ==
            FDivBig(FALSE, BMul(ti, BFromInt(g.AVG_RESPONSE_SIZE_BYTES)),
                    BFromInt(1024 * 1024 * 1024), 0)
        apigw_out_billable_gb ==
            FMax0(FSub(apigw_out_gb,
                       FMul(g.DATA_TRANSFER_OUT_FREE_GB,
                            FDivBig(FALSE, BFromInt(days), BFromInt(30), 0))))
    IN  FMul(apigw_out_billable_gb, g.DATA_TRANSFER_OUT_COST_PER_GB)

cross_az_invocations(g, ti) == FMul(FFromBig(ti), g.CROSS_AZ_RATIO)

\* lines 79-81, from the value of cross_az_invocations
cross_az_cost_of(g, invocations) ==
    LET db_query_gb ==
            FDiv(FMul(invocations, FFromInt(g.AVG_DB_QUERY_KB)),
                 FFromInt(1024 * 1024))
        db_response_gb ==
            FDiv(FMul(invocations, FFromInt(g.AVG_DB_RESPONSE_KB)),
                 FFromInt(1024 * 1024))
    IN  FMul(FAdd(db_query_gb, db_response_gb), g.CROSS_AZ_COST_PER_GB)

cross_az_cost(g, ti) == cross_az_cost_of(g, cross_az_invocations(g, ti))

data_transfer_total(g, ti, days) ==
    FAdd(apigw_transfer_cost(g, ti, days), cross_az_cost(g, ti))

total_log_gb(g, ti) ==
    LET lambda_log_bytes ==
            BMul(ti, BFromInt(g.AVG_LAMBDA_LOG_BYTES_PER_INVOCATION))
        apigw_log_bytes ==
            BMul(ti, BFromInt(g.AVG_APIGW_LOG_BYTES_PER_REQUEST))
    IN  FDivBig(FALSE, BAdd(lambda_log_bytes, apigw_log_bytes),
                BFromInt(1024 * 1024 * 1024), 0)

\* lines 90-93, from the value of total_log_gb
cloudwatch_total_of(g, log_gb) ==
    LET cloudwatch_ingestion ==
            FMul(log_gb, g.CLOUDWATCH_INGESTION_COST_PER_GB)
        cloudwatch_storage ==
            FMul(FMul(log_gb, g.CLOUDWATCH_STORAGE_COST_PER_GB_MONTH),
                 FDivBig(FALSE, BFromInt(g.LOG_RETENTION_DAYS),
                         BFromInt(30), 0))
    IN  FAdd(cloudwatch_ingestion, cloudwatch_storage)

cloudwatch_total(g, ti) == cloudwatch_total_of(g, total_log_gb(g, ti))

\* variant: s3_total left out of the total
SumCostsWithoutS3(l, a, r, s, d, c) ==
    FAdd(FAdd(FAdd(FAdd(l, a), r), d), c)

\* total = lambda_total + apigw_total + rds_cost + s3_total
\*         + data_transfer_total + cloudwatch_total, added left to right
SumCosts(l, a, r, s, d, c) ==
    FAdd(FAdd(FAdd(FAdd(FAdd(l, a), r), s), d), c)

Returned(ti, ts, l, a, r, s, d, c) ==
    [invocations |-> ti, sessions |-> ts, lambda |-> l, apigw |-> a,
     rds |-> r, s3 |-> s, data_transfer |-> d, cloudwatch |-> c,
     total |-> SumCosts(l, a, r, s, d, c)]

\* lines 50-109, from the values of total_invocations and total_sessions
costs_of(g, ti, ts, days) ==
    Returned(ti, ts, lambda_total(g, ti), apigw_total(g, ti),
             rds_cost(g, days), s3_total(g, ts, days),
             data_transfer_total(g, ti, days), cloudwatch_total(g, ti))

calc_costs(g, company_users, active_users, sessions_per_day, days) ==
    costs_of(g,
             total_invocations(company_users, active_users,
                               sessions_per_day, days),
             total_sessions(active_users, sessions_per_day, days),
             days)

\* ------------------------------------------------------------------------
\* main (lines 112-243): widgets, the call of calc_costs, the detail table
\* ------------------------------------------------------------------------
WIDGET_MIN == 1
COMPANY_USERS_MAX == 1000
ACTIVE_USERS_MAX == 1000
SESSIONS_PER_DAY_MAX == 50
DAYS_MAX == 30
COMPANY_USERS_DEFAULT == 2
WIDGET_DEFAULT == 1

\* The error a float division by zero raises
ZeroDivisionError == [error |-> "ZeroDivisionError"]
IsError(v) == "error" \in DOMAIN v

\* x / y as main evaluates it: Python raises ZeroDivisionError for y = 0
FTrueDiv(x, y) == IF y.m = <<>> THEN ZeroDivisionError ELSE FDiv(x, y)

RECURSIVE BToInt(_)
BToInt(a) == IF a = <<>> THEN 0 ELSE a[1] + Base * BToInt(Tail(a))

\* x >= 0 rounded to tenths (correctly, ties to even), as an int of tenths
\* q rounded up when c, the bits cut off compared with a half, says so
TenthsCut(q, c) ==
    BToInt(IF c > 0 \/ (c = 0 /\ BIsOdd(q)) THEN BAddC(q, <<>>, 1) ELSE q)

\* n * 2^ex rounded to an int
TenthsOf(n, ex) ==
    IF ex >= 0 THEN BToInt(BShl(n, ex))
    ELSE TenthsCut(BShr(n, 0 - ex),
                   BCmp(BLowBits(n, 0 - ex), BShl(<<1>>, 0 - ex - 1)))

Tenths(x) ==
    IF x.m = <<>> THEN 0 ELSE TenthsOf(BTrim(BMulSmall(x.m, 10, 0)), x.e)

DigitChar(d) == <<"0", "1", "2", "3", "4", "5", "6", "7", "8", "9">>[d + 1]

RECURSIVE DecDigits(_)
DecDigits(n) ==
    IF n < 10 THEN <<DigitChar(n)>>
    ELSE DecDigits(n \div 10) \o <<DigitChar(n % 10)>>

\* f"{x:.1f}" for x >= 0; a string is the sequence of its characters
Fmt1fTenths(t) == DecDigits(t \div 10) \o <<".", DigitChar(t % 10)>>

Fmt1f(x) == Fmt1fTenths(Tenths(x))

\* f"{(q*100):.1f}%" for the quotient q; an exception is shown as the
\* one-element sequence of its name
PercentageText(q) ==
    IF IsError(q) THEN <<q.error>>
    ELSE Fmt1f(FMul(q, FFromInt(100))) \o <<"%">>

\* variant: the guard written as total >= 0
PercentageCellGe(c, total) ==
    IF FGe(total, FZero)
    THEN PercentageText(FTrueDiv(c, total))
    ELSE <<"0", "%">>

\* f"{(c/results['total']*100):.1f}%" if results['total'] > 0 else "0%"
PercentageCell(c, total) ==
    IF FGt(total, FZero)
    THEN PercentageText(FTrueDiv(c, total))
    ELSE <<"0", "%">>

\* costs, in the order of services (lines 181-190)
Costs(r) == <<r.lambda, r.apigw, r.rds, r.s3, r.data_transfer, r.cloudwatch>>

\* The table's Percentage column; an exception in the list comprehension
\* leaves no table
TableOf(cells) ==
    IF \E i \in 1..6 : cells[i] = <<ZeroDivisionError.error>>
    THEN [status |-> "ZeroDivisionError", Percentage |-> <<>>]
    ELSE [status |-> "shown", Percentage |-> cells]

DetailTable(r) ==
    TableOf([i \in 1..6 |-> PercentageCell(Costs(r)[i], r.total)])

\* ------------------------------------------------------------------------
\* State
\* ------------------------------------------------------------------------
VARIABLES
    globals,           \* the module's global names
    company_users,     \* the four widget values, the arguments of the call
    active_users,
    sessions_per_day,
    days,
    results,           \* what calc_costs returned to main
    table,             \* the detail table main built from results
    memo,              \* history: an earlier call, its arguments and results
    between            \* history: calls made since memo was taken

vars == <<globals, company_users, active_users, sessions_per_day, days,
          results, table, memo, between>>

NoMemo == [args |-> <<>>, results |-> <<>>]
NoTable == [status |-> "none", Percentage |-> <<>>]

\* Widget values the model tries (each widget accepts min..max in steps of 1)
NearDays == 2
MaxBetween == 2
CompanyUsersChoices ==
    {WIDGET_MIN, COMPANY_USERS_DEFAULT, 991, COMPANY_USERS_MAX}
ActiveUsersChoices == {WIDGET_MIN, 250, ACTIVE_USERS_MAX}
SessionsChoices == {WIDGET_MIN, 25, SESSIONS_PER_DAY_MAX}
DaysChoices == (WIDGET_MIN..NearDays) \cup {15, DAYS_MAX}

\* ------------------------------------------------------------------------
\* The dashboard: Streamlit runs main once at start and again after every
\* widget change
\* ------------------------------------------------------------------------
\* variant: calc_costs stores the prorated RDS cost back into the global
MainClobber(cu, au, spd, d) ==
    /\ company_users' = cu
    /\ active_users' = au
    /\ sessions_per_day' = spd
    /\ days' = d
    /\ results' = calc_costs(globals, cu, au, spd, d)
    /\ table' = DetailTable(results')
    /\ globals' = [globals EXCEPT !.RDS_MONTHLY_COST = results'.rds]

\* One run of main with the widget values cu, au, spd, d (lines 120-243);
\* neither main nor calc_costs assigns a global
Main(cu, au, spd, d) ==
    /\ company_users' = cu
    /\ active_users' = au
    /\ sessions_per_day' = spd
    /\ days' = d
    /\ results' = calc_costs(globals, cu, au, spd, d)
    /\ table' = DetailTable(results')
    /\ UNCHANGED globals

\* The first run, with every widget at its default value
Init ==
    /\ globals = ModuleGlobals
    /\ company_users = COMPANY_USERS_DEFAULT
    /\ active_users = WIDGET_DEFAULT
    /\ sessions_per_day = WIDGET_DEFAULT
    /\ days = WIDGET_DEFAULT
    /\ results = calc_costs(ModuleGlobals, COMPANY_USERS_DEFAULT,
                            WIDGET_DEFAULT, WIDGET_DEFAULT, WIDGET_DEFAULT)
    /\ table = DetailTable(results)
    /\ memo = NoMemo
    /\ between = 0

SetCompanyUsers ==
    /\ \E v \in CompanyUsersChoices \ {company_users} :
           Main(v, active_users, sessions_per_day, days)
    /\ UNCHANGED <<memo, between>>

SetActiveUsers ==
    /\ \E v \in ActiveUsersChoices \ {active_users} :
           Main(company_users, v, sessions_per_day, days)
    /\ UNCHANGED <<memo, between>>

SetSessionsPerDay ==
    /\ \E v \in SessionsChoices \ {sessions_per_day} :
           Main(company_users, active_users, v, days)
    /\ UNCHANGED <<memo, between>>

SetDays ==
    /\ \E v \in DaysChoices \ {days} :
           Main(company_users, active_users, sessions_per_day, v)
    /\ UNCHANGED <<memo, between>>

Next == SetCompanyUsers \/ SetActiveUsers \/ SetSessionsPerDay \/ SetDays

Spec == Init /\ [][Next]_vars

\* ------------------------------------------------------------------------
\* Repeated calls: runs of main with any widget values, one of which is kept
\* in memo to compare a later call on the same arguments with
\* ------------------------------------------------------------------------
CallCompanyUsers == {COMPANY_USERS_DEFAULT, COMPANY_USERS_MAX}
CallActiveUsers == {WIDGET_DEFAULT, ACTIVE_USERS_MAX}
CallSessions == {WIDGET_DEFAULT}
CallDays == {WIDGET_DEFAULT, DAYS_MAX}

CallRemember ==
    \E cu \in CallCompanyUsers, au \in CallActiveUsers,
       spd \in CallSessions, d \in CallDays :
        /\ Main(cu, au, spd, d)
        /\ memo' = [args |-> <<cu, au, spd, d>>, results |-> results']
        /\ between' = 0

CallAgain ==
    /\ memo.args # <<>>
    /\ between < MaxBetween
    /\ \E cu \in CallCompanyUsers, au \in CallActiveUsers,
          spd \in CallSessions, d \in CallDays :
           Main(cu, au, spd, d)
    /\ between' = between + 1
    /\ UNCHANGED memo

NextCalls == CallRemember \/ CallAgain

SpecCalls == Init /\ [][NextCalls]_vars

\* ------------------------------------------------------------------------
\* The detail table as a function of results.  calc_costs returns a total
\* of 0 only for days = 0, below the days slider's minimum; the arguments
\* here include it so that both branches of the Percentage cell are taken.
\* ------------------------------------------------------------------------
TableCompanyUsers == CompanyUsersChoices
TableActiveUsers == {WIDGET_MIN, ACTIVE_USERS_MAX}
TableSessions == {WIDGET_MIN, SESSIONS_PER_DAY_MAX}
TableDays == {0} \cup DaysChoices

InitTable ==
    /\ globals = ModuleGlobals
    /\ company_users \in TableCompanyUsers
    /\ active_users \in TableActiveUsers
    /\ sessions_per_day \in TableSessions
    /\ days \in TableDays
    /\ results = calc_costs(ModuleGlobals, company_users, active_users,
                            sessions_per_day, days)
    /\ table = NoTable
    /\ memo = NoMemo
    /\ between = 0

\* lines 236-240
ShowTable ==
    /\ table.status = "none"
    /\ table' = DetailTable(results)
    /\ UNCHANGED <<globals, company_users, active_users, sessions_per_day,
                   days, results, memo, between>>

NextTable == ShowTable

SpecTable == InitTable /\ [][NextTable]_vars

\* ------------------------------------------------------------------------
\* Properties
\* ------------------------------------------------------------------------
CostFields(r) ==
    {r.lambda, r.apigw, r.rds, r.s3, r.data_transfer, r.cloudwatch}

\* a well-formed natural number: limbs in range, no high zero limb
IsBigNat(a) ==
    /\ \A i \in 1..Len(a) : a[i] \in 0..(Base - 1)
    /\ (a = <<>> \/ a[Len(a)] # 0)

Million == BFromInt(1000000)

\* gbSeconds = totalInvocations * (512/1024) * (229/1000), from the numbers
GbSecondsOf(ti) == FMul(FMul(FFromBig(ti), FLit(5, 1)), FLit(229, 3))

\* |x - n / 10^4| <= 0.00005: x is n / 10^4 to four decimal places
About4(x, n) ==
    /\ FCmp(x, FLit(10 * n - 5, 5)) >= 0
    /\ FCmp(x, FLit(10 * n + 5, 5)) <= 0

AtDefaults ==
    /\ company_users = 2
    /\ active_users = 1
    /\ sessions_per_day = 1
    /\ days = 1

AtMaxima ==
    /\ company_users = 1000
    /\ active_users = 1000
    /\ sessions_per_day = 50
    /\ days = 30

\* C1: the returned total is exactly the float sum lambda + apigw + rds + s3
\* + data_transfer + cloudwatch of the six returned cost fields, added in
\* that order, with nothing rounded off afterwards.
C1_TotalIsSum ==
    results.total =
        FAdd(FAdd(FAdd(FAdd(FAdd(results.lambda, results.apigw),
                            results.rds), results.s3),
                  results.data_transfer), results.cloudwatch)

\* C1 witness: a result whose six cost fields are all positive
C1_Witness ==
    /\ \A f \in CostFields(results) : FGt(f, FZero)
    /\ FGt(results.total, results.rds)

\* C2: every returned cost field and the total are >= 0, and each of the
\* three free-tier terms (Lambda compute, Lambda requests, data transfer out)
\* is >= 0.
C2_NonNegative ==
    /\ \A f \in CostFields(results) : FGe(f, FZero) /\ ~f.neg
    /\ FGe(results.total, FZero)
    /\ FGe(lambda_compute(globals, results.invocations), FZero)
    /\ FGe(lambda_requests(globals, results.invocations), FZero)
    /\ FGe(apigw_transfer_cost(globals, results.invocations, days), FZero)

\* C2 witness: all three subtractions are negative and clamped to 0
C2_Witness ==
    /\ FCmp(gb_seconds(globals, results.invocations),
            FFromInt(LAMBDA_FREE_GB_SECONDS)) < 0
    /\ BCmp(results.invocations, BFromInt(LAMBDA_FREE_REQUESTS)) < 0
    /\ apigw_transfer_cost(globals, results.invocations, days) = FZero
    /\ lambda_compute(globals, results.invocations) = FZero
    /\ results.lambda = FZero

\* C3: when totalInvocations <= 1,000,000 and gbSeconds <= 400,000 the
\* returned lambda cost is exactly 0.
C3_LambdaFreeTier ==
    (/\ BCmp(results.invocations, Million) <= 0
     /\ FCmp(GbSecondsOf(results.invocations), FFromInt(400000)) <= 0)
        => results.lambda = FZero

\* C3 witness: exactly 1,000,000 invocations, the last free request
C3_Witness ==
    /\ results.invocations = Million
    /\ results.lambda = FZero

\* C4: invocations and sessions are non-negative integers, and a run of main
\* in which no input is lowered never lowers either of them.
C4_Monotone ==
    /\ [](IsBigNat(results.invocations) /\ IsBigNat(results.sessions))
    /\ [][(/\ company_users' >= company_users
           /\ active_users' >= active_users
           /\ sessions_per_day' >= sessions_per_day
           /\ days' >= days)
          => (/\ BCmp(results'.invocations, results.invocations) >= 0
              /\ BCmp(results'.sessions, results.sessions) >= 0)]_vars

\* C4 witness: every input raised to its maximum, both fields above their
\* values of the first run
C4_Witness ==
    /\ AtMaxima
    /\ BCmp(results.invocations, <<44>>) > 0
    /\ BCmp(results.sessions, <<1>>) > 0

\* C5: with days doubled and the other inputs fixed, invocations, sessions,
\* apigw and rds are each exactly twice their value.
C5_DoubleDays ==
    LET r2 == calc_costs(globals, company_users, active_users,
                         sessions_per_day, 2 * days)
    IN  /\ r2.invocations = BAdd(results.invocations, results.invocations)
        /\ r2.sessions = BAdd(results.sessions, results.sessions)
        /\ r2.apigw = FMul(FFromInt(2), results.apigw)
        /\ r2.rds = FMul(FFromInt(2), results.rds)

\* C5 witness: days at the slider's maximum, so doubling gives 60 days
C5_Witness ==
    /\ days = DAYS_MAX
    /\ FGt(results.rds, FZero)
    /\ FGt(results.apigw, FZero)

\* C6 as stated: for companyUsers=2, activeUsers=1, sessionsPerDay=1, days=1
\* invocationsPerSession is 44, invocations 44, sessions 1, lambda 0,
\* apigw 44 * 0.000001 = 0.000044 and rds ((0.016*730) + 20*0.115) / 30 * 1,
\* about 0.4676.
C6_ScenarioA_AsStated ==
    AtDefaults =>
        /\ invoc_per_session(company_users) = 44
        /\ results.invocations = <<44>>
        /\ results.sessions = <<1>>
        /\ results.lambda = FZero
        /\ results.apigw = FMul(FFromInt(44), FLit(1, 6))
        /\ results.apigw = FLit(44, 6)
        /\ results.rds =
               FMul(FDiv(FAdd(FMul(FLit(16, 3), FFromInt(730)),
                              FMul(FFromInt(20), FLit(115, 3))),
                         FFromInt(30)), FFromInt(1))
        /\ About4(results.rds, 4676)

\* C6 (amended): as above, except that rds is about 0.4660.
C6_ScenarioA ==
    AtDefaults =>
        /\ invoc_per_session(company_users) = 44
        /\ results.invocations = <<44>>
        /\ results.sessions = <<1>>
        /\ results.lambda = FZero
        /\ results.apigw = FMul(FFromInt(44), FLit(1, 6))
        /\ results.apigw = FLit(44, 6)
        /\ results.rds =
               FMul(FDiv(FAdd(FMul(FLit(16, 3), FFromInt(730)),
                              FMul(FFromInt(20), FLit(115, 3))),
                         FFromInt(30)), FFromInt(1))
        /\ About4(results.rds, 4660)

\* C6 witness: main has run on the scenario's inputs
C6_Witness ==
    /\ AtDefaults
    /\ table.status = "shown"
    /\ FGt(results.rds, FZero)

\* C7: for the widget values main passes, the maxima included, calc_costs
\* returns a result whose fields are all finite and whose total is > 0.
C7_WidgetRange ==
    /\ company_users \in WIDGET_MIN..COMPANY_USERS_MAX
    /\ active_users \in WIDGET_MIN..ACTIVE_USERS_MAX
    /\ sessions_per_day \in WIDGET_MIN..SESSIONS_PER_DAY_MAX
    /\ days \in WIDGET_MIN..DAYS_MAX
    /\ IsBigNat(results.invocations)
    /\ \A f \in CostFields(results) : ~IsError(f) /\ FIsFinite(f)
    /\ FIsFinite(results.total)
    /\ FGt(results.total, FZero)

\* C7 witness: the run with every widget at its maximum, 6,054,000,000
\* invocations
C7_Witness ==
    /\ AtMaxima
    /\ results.invocations = BMul(BFromInt(6054), Million)
    /\ FGt(results.total, FFromInt(22415))

\* C8: a call on the arguments of an earlier call returns the same nine
\* fields, whatever calls came between, and no call changes a global.
C8_Deterministic ==
    /\ globals = ModuleGlobals
    /\ (memo.args = <<company_users, active_users, sessions_per_day, days>>)
           => results = memo.results

\* C8 witness: the remembered arguments called again after other calls
C8_Witness ==
    /\ memo.args = <<company_users, active_users, sessions_per_day, days>>
    /\ between = MaxBetween
    /\ results = memo.results

\* C9: when the total is 0 every Percentage cell is "0%" and no division is
\* made (a division by a zero total raises ZeroDivisionError); a cell
\* computed by division appears only when total > 0.
C9_ZeroTotal ==
    /\ table.status # "ZeroDivisionError"
    /\ (table.status = "shown" /\ results.total = FZero)
           => \A i \in 1..6 : table.Percentage[i] = <<"0", "%">>
    /\ (table.status = "shown"
        /\ \E i \in 1..6 : table.Percentage[i] # <<"0", "%">>)
           => FGt(results.total, FZero)

\* C9 witness: the table shown for a total of 0
C9_Witness ==
    /\ table.status = "shown"
    /\ results.total = FZero
    /\ \A i \in 1..6 : table.Percentage[i] = <<"0", "%">>

\* C10: the lambda cost is 0 exactly when totalInvocations <= 1,000,000,
\* and up to 1,000,000 invocations gbSeconds stays within 400,000.
C10_RequestTierFirst ==
    /\ (results.lambda = FZero) <=> (BCmp(results.invocations, Million) <= 0)
    /\ (BCmp(results.invocations, Million) <= 0)
           => FCmp(GbSecondsOf(results.invocations), FFromInt(400000)) <= 0
    /\ (BCmp(results.invocations, Million) > 0) => FGt(results.lambda, FZero)

\* C10 witness: over 1,000,000 invocations with gbSeconds still under
\* 400,000, charged for requests only
C10_Witness ==
    /\ BCmp(results.invocations, Million) > 0
    /\ FCmp(GbSecondsOf(results.invocations), FFromInt(400000)) < 0
    /\ FGt(results.lambda, FZero)
====
